---- MODULE Spec2Model ----
(***************************************************************************)
(* Crockford's Base32 codec (croc32.py): b32encode / b32decode.            *)
(*                                                                         *)
(* Bytes are integers 0..255 and byte strings are sequences of them.       *)
(* Python integers are unbounded; the 40-bit quantum value does not fit    *)
(* TLC's integers, so an integer of the program is a sequence of bits,     *)
(* least significant first, of any length (high zero bits allowed).        *)
(***************************************************************************)
EXTENDS Integers, Sequences, FiniteSets, TLC

VARIABLES
    _b32tab2,   \* module global _b32tab2: alphabet -> 1024-entry pair table
    _b32rev,    \* module global _b32rev: alphabet -> reverse table
    pc,         \* position of the calling program
    arg1,       \* argument of the first call:  [type, data]
    casefold1,  \* casefold argument of the first call (decode only)
    res1,       \* outcome of the first call:   [kind, value]
    arg2,       \* argument of the second call
    casefold2,  \* casefold argument of the second call (decode only)
    res2,       \* outcome of the second call
    encoded     \* local bytearray "encoded" of the latest _b32encode call, as the
                \* loop over the quanta left it (before the padding is written)

vars == <<_b32tab2, _b32rev, pc, arg1, casefold1, res1, arg2, casefold2, res2, encoded>>

(***************************************************************************)
(* Bounds of the model.                                                    *)
(***************************************************************************)
MaxLen == 6        \* longest exhaustively enumerated encode input
MaxRawLen == 8     \* longest exhaustively enumerated decode input
MaxStride == 3     \* largest stride of the case-changing position masks

(***************************************************************************)
(* Python integer arithmetic on bit sequences (least significant first).   *)
(***************************************************************************)
Min(a, b) == IF a < b THEN a ELSE b
Max(a, b) == IF a > b THEN a ELSE b

\* the w low bits of a small natural number
Bits(n, w) == [i \in 1..w |-> (n \div (2 ^ (i - 1))) % 2]

\* the value of a bit sequence known to be small
RECURSIVE IntOf(_)
IntOf(n) == IF n = <<>> THEN 0 ELSE n[1] + 2 * IntOf(Tail(n))

\* n >> k
Shr(n, k) == SubSeq(n, k + 1, Len(n))

\* n << k
Shl(n, k) == [i \in 1..k |-> 0] \o n

\* n & m
BitAnd(n, m) == [i \in 1..Min(Len(n), Len(m)) |-> n[i] * m[i]]

\* n + m, ripple carry; nothing is left to add once m and the carry are spent
RECURSIVE AddC(_, _, _)
AddC(n, m, carry) ==
    IF m = <<>> /\ carry = 0 THEN n
    ELSE IF n = <<>> /\ m = <<>> THEN <<1>>
    ELSE LET a == IF n = <<>> THEN 0 ELSE n[1]
             b == IF m = <<>> THEN 0 ELSE m[1]
             t == a + b + carry
         IN  <<t % 2>> \o AddC(IF n = <<>> THEN <<>> ELSE Tail(n),
                               IF m = <<>> THEN <<>> ELSE Tail(m),
                               t \div 2)
Add(n, m) == AddC(n, m, 0)

\* int.from_bytes(s, "big")
RECURSIVE from_bytes(_)
from_bytes(s) ==
    IF s = <<>> THEN <<>>
    ELSE Bits(s[Len(s)], 8) \o from_bytes(SubSeq(s, 1, Len(s) - 1))

\* does n fit in length bytes (int.to_bytes raises OverflowError otherwise)
Fits(n, length) == \A i \in 1..Len(n) : i > 8 * length => n[i] = 0

\* n.to_bytes(length, "big"), for n that fits
to_bytes(n, length) ==
    [j \in 1..length |->
        IntOf([k \in 1..8 |->
                 LET i == 8 * (length - j) + k
                 IN  IF i <= Len(n) THEN n[i] ELSE 0])]

(***************************************************************************)
(* Python bytes helpers.                                                   *)
(***************************************************************************)
PadChar == 61     \* ord('=')

\* a bug: upper() that leaves the bytes as they are
upper_Unchanged(s) == s

\* bytes.upper(): ASCII a-z -> A-Z
upper(s) == [i \in 1..Len(s) |-> IF s[i] >= 97 /\ s[i] <= 122 THEN s[i] - 32 ELSE s[i]]

\* bytes.lower(): ASCII A-Z -> a-z
lower(s) == [i \in 1..Len(s) |-> IF s[i] >= 65 /\ s[i] <= 90 THEN s[i] + 32 ELSE s[i]]

\* bytes.rstrip(b'=')
RECURSIVE rstrip(_)
rstrip(s) ==
    IF s # <<>> /\ s[Len(s)] = PadChar THEN rstrip(SubSeq(s, 1, Len(s) - 1)) ELSE s

\* a bug: x += y in place of the slice assignment
SetTail_Append(x, n, y) == x \o y

\* x[-n:] = y   (slice assignment at the tail of a bytearray)
SetTail(x, n, y) == SubSeq(x, 1, Max(Len(x) - n, 0)) \o y

\* k copies of byte c
Rep(c, k) == [i \in 1..k |-> c]

Ok(v) == [kind |-> "ok", value |-> v]
Err(k) == [kind |-> k, value |-> <<>>]

(***************************************************************************)
(* Argument values: a Python object is its type and, for the types that    *)
(* carry bytes or characters, the sequence of byte values / code points.   *)
(*   "bytes"  : bytes or bytearray                                         *)
(*   "buffer" : another object with the buffer protocol (array, memoryview)*)
(*   "str"    : text, a sequence of code points                            *)
(*   "object" : anything else                                              *)
(***************************************************************************)
Bytes(d) == [type |-> "bytes", data |-> d]
NoArg == [type |-> "none", data |-> <<>>]
None == [kind |-> "none", value |-> <<>>]

\* _bytes_from_decode_data
_bytes_from_decode_data(s) ==
    CASE s.type = "str" ->
            IF \A i \in 1..Len(s.data) : s.data[i] < 128
            THEN Ok(s.data)
            ELSE Err("ValueError")
      [] s.type = "bytes" -> Ok(s.data)
      [] s.type = "buffer" -> Ok(s.data)
      [] OTHER -> Err("TypeError")

(***************************************************************************)
(* The alphabet and the lazily built tables.                               *)
(***************************************************************************)
\* b'0123456789ABCDEFGHJKMNPQRSTVWXYZ'
_b32alphabet ==
    <<48, 49, 50, 51, 52, 53, 54, 55, 56, 57,
      65, 66, 67, 68, 69, 70, 71, 72, 74, 75, 77, 78,
      80, 81, 82, 83, 84, 86, 87, 88, 89, 90>>

\* an empty dict
EmptyDict == [k \in {} |-> <<>>]

\* a bug: [b + a for a in b32tab for b in b32tab]
PairTable_Swapped(alphabet) ==
    LET n == Len(alphabet)
    IN  [k \in 0..(n * n - 1) |-> <<alphabet[(k % n) + 1], alphabet[(k \div n) + 1]>>]

\* [a + b for a in b32tab for b in b32tab], a list indexed from 0
PairTable(alphabet) ==
    LET n == Len(alphabet)
    IN  [k \in 0..(n * n - 1) |-> <<alphabet[(k \div n) + 1], alphabet[(k % n) + 1]>>]

\* {v: k for k, v in enumerate(alphabet)}
ReverseTable(alphabet) ==
    [v \in {alphabet[i] : i \in 1..Len(alphabet)} |->
        (CHOOSE i \in 1..Len(alphabet) :
            /\ alphabet[i] = v
            /\ \A j \in 1..Len(alphabet) : alphabet[j] = v => j <= i) - 1]

\* the two tables of the one alphabet the module passes, built once
CrockfordPairTable == PairTable(_b32alphabet)
CrockfordReverseTable == ReverseTable(_b32alphabet)

\* _b32tab2 after "if alphabet not in _b32tab2: ..."
InitTab2(alphabet, cache) ==
    IF alphabet \notin DOMAIN cache
    THEN [a \in (DOMAIN cache) \cup {alphabet} |->
            IF a # alphabet THEN cache[a]
            ELSE IF a = _b32alphabet THEN CrockfordPairTable
            ELSE PairTable(a)]
    ELSE cache

\* _b32rev after "if alphabet not in _b32rev: ..."
InitRev(alphabet, cache) ==
    IF alphabet \notin DOMAIN cache
    THEN [a \in (DOMAIN cache) \cup {alphabet} |->
            IF a # alphabet THEN cache[a]
            ELSE IF a = _b32alphabet THEN CrockfordReverseTable
            ELSE ReverseTable(a)]
    ELSE cache

(***************************************************************************)
(* _b32encode                                                              *)
(***************************************************************************)
\* 0x3ff
Mask10 == Bits(1023, 10)

\* the 8 symbols of one 5-byte group, through the pair table
EncodeGroup(b32tab2, group) ==
    LET c == from_bytes(group)
    IN  b32tab2[IntOf(Shr(c, 30))]
        \o b32tab2[IntOf(BitAnd(Shr(c, 20), Mask10))]
        \o b32tab2[IntOf(BitAnd(Shr(c, 10), Mask10))]
        \o b32tab2[IntOf(BitAnd(c, Mask10))]

\* for i in range(0, len(s), 5): encoded += ...     (from 1-based position i)
RECURSIVE EncodeLoop(_, _, _)
EncodeLoop(b32tab2, s, i) ==
    IF i > Len(s) THEN <<>>
    ELSE EncodeGroup(b32tab2, SubSeq(s, i, Min(i + 4, Len(s))))
         \o EncodeLoop(b32tab2, s, i + 5)

\* a bug: leftover 2 padded like leftover 3
PadCount_TwoAsThree(leftover) ==
    CASE leftover = 1 -> 6
      [] leftover = 2 -> 3
      [] leftover = 3 -> 3
      [] leftover = 4 -> 1
      [] OTHER -> 0

\* number of trailing '=' written over the last quantum
PadCount(leftover) ==
    CASE leftover = 1 -> 6
      [] leftover = 2 -> 4
      [] leftover = 3 -> 3
      [] leftover = 4 -> 1
      [] OTHER -> 0

\* the bytearray "encoded" after the loop, before the padding is written
EncodeQuanta(alphabet, s, cache) ==
    IF s.type \notin {"bytes", "buffer"} THEN <<>>
    ELSE LET leftover == Len(s.data) % 5
             padded == IF leftover # 0 THEN s.data \o Rep(0, 5 - leftover) ELSE s.data
         IN  EncodeLoop(cache[alphabet], padded, 1)

\* _b32encode(alphabet, s), the tables being cache (already initialised)
_b32encode(alphabet, s, cache) ==
    IF s.type \notin {"bytes", "buffer"} THEN Err("TypeError")
    ELSE LET leftover == Len(s.data) % 5
             quanta == EncodeQuanta(alphabet, s, cache)
             n == PadCount(leftover)
         IN  Ok(IF n > 0 THEN SetTail(quanta, n, Rep(PadChar, n)) ELSE quanta)

(***************************************************************************)
(* _b32decode                                                              *)
(***************************************************************************)
\* a bug: a character that is not in the table is skipped (b32rev.get(c, 0))
RECURSIVE Accumulate_Skip(_, _, _)
Accumulate_Skip(b32rev, quanta, acc) ==
    IF quanta = <<>> THEN [ok |-> TRUE, acc |-> acc]
    ELSE Accumulate_Skip(b32rev, Tail(quanta),
                         Add(Shl(acc, 5),
                             IF Head(quanta) \in DOMAIN b32rev
                             THEN Bits(b32rev[Head(quanta)], 5) ELSE <<>>))

\* for c in quanta: acc = (acc << 5) + b32rev[c]      (KeyError: ok = FALSE)
RECURSIVE Accumulate(_, _, _)
Accumulate(b32rev, quanta, acc) ==
    IF quanta = <<>> THEN [ok |-> TRUE, acc |-> acc]
    ELSE IF Head(quanta) \notin DOMAIN b32rev THEN [ok |-> FALSE, acc |-> acc]
    ELSE Accumulate(b32rev, Tail(quanta),
                    Add(Shl(acc, 5), Bits(b32rev[Head(quanta)], 5)))

\* for i in range(0, len(s), 8): ...     (from 1-based position i)
RECURSIVE DecodeLoop(_, _, _, _, _)
DecodeLoop(b32rev, s, i, decoded, acc) ==
    IF i > Len(s) THEN [kind |-> "ok", decoded |-> decoded, acc |-> acc]
    ELSE LET q == Accumulate(b32rev, SubSeq(s, i, Min(i + 7, Len(s))), <<>>)
         IN  IF ~q.ok THEN [kind |-> "InvalidDigit", decoded |-> decoded, acc |-> q.acc]
             ELSE IF ~Fits(q.acc, 5)
             THEN [kind |-> "OverflowError", decoded |-> decoded, acc |-> q.acc]
             ELSE DecodeLoop(b32rev, s, i + 8, decoded \o to_bytes(q.acc, 5), q.acc)

\* a bug: 2 taken for a valid pad count
ValidPadchars_WithTwo == {0, 1, 2, 3, 4, 6}

\* the pad counts a valid encoding can end with
ValidPadchars == {0, 1, 3, 4, 6}

\* a bug: leftover = (45 - 5 * padchars) // 8
Leftover_45(padchars) == (45 - 5 * padchars) \div 8

\* leftover = (43 - 5 * padchars) // 8
Leftover(padchars) == (43 - 5 * padchars) \div 8

\* a bug: the accumulator is not shifted
DecodeTail_NoShift(decoded, acc, padchars) ==
    IF ~Fits(acc, 5) THEN Err("OverflowError")
    ELSE Ok(SetTail(decoded, 5, SubSeq(to_bytes(acc, 5), 1, (43 - 5 * padchars) \div 8)))

\* a bug: acc <<= 8 * padchars
DecodeTail_ByteShift(decoded, acc, padchars) ==
    LET shifted == Shl(acc, 8 * padchars)
    IN  IF ~Fits(shifted, 5) THEN Err("OverflowError")
        ELSE Ok(SetTail(decoded, 5,
                        SubSeq(to_bytes(shifted, 5), 1, (43 - 5 * padchars) \div 8)))

\* the last, partial quantum: acc <<= 5 * padchars; decoded[-5:] = last[:leftover]
DecodeTail(decoded, acc, padchars) ==
    LET shifted == Shl(acc, 5 * padchars)
    IN  IF ~Fits(shifted, 5) THEN Err("OverflowError")
        ELSE Ok(SetTail(decoded, 5, SubSeq(to_bytes(shifted, 5), 1, Leftover(padchars))))

\* a bug: the input is uppercased whatever casefold is
Fold_Always(s, casefold) == upper(s)

\* if casefold: s = s.upper()
Fold(s, casefold) == IF casefold THEN upper(s) ELSE s

\* _b32decode(alphabet, s, casefold), the tables being cache (already initialised)
_b32decode(alphabet, s, casefold, cache) ==
    LET conv == _bytes_from_decode_data(s)
    IN  IF conv.kind # "ok" THEN conv
        ELSE IF Len(conv.value) % 8 # 0 THEN Err("PaddingError")
        ELSE
          LET folded == Fold(conv.value, casefold)
              l == Len(folded)
              stripped == rstrip(folded)
              padchars == l - Len(stripped)
              loop == DecodeLoop(cache[alphabet], stripped, 1, <<>>, <<>>)
          IN  IF loop.kind # "ok" THEN Err(loop.kind)
              ELSE IF l % 8 # 0 \/ padchars \notin ValidPadchars THEN Err("PaddingError")
              ELSE IF padchars # 0 /\ loop.decoded # <<>>
                   THEN DecodeTail(loop.decoded, loop.acc, padchars)
                   ELSE Ok(loop.decoded)

(***************************************************************************)
(* The inputs the calls are made with.                                     *)
(***************************************************************************)
AllBytes == 0..255

SeqsUpTo(S, n) == UNION {[1..k -> S] : k \in 0..n}

\* every string that differs from a string of T in at most one position
Probes(T) == UNION {{[t EXCEPT ![i] = v] : i \in 1..Len(t), v \in AllBytes} : t \in T}

\* byte values of the exhaustively enumerated encode inputs: 0x00, 'a', 0xff
ByteVals == {0, 97, 255}

\* b"a", b"ab", b"abc", b"abcd", b"abcde", b"Hello, World!" (croc32_test.py)
\* and two-byte strings whose second byte fixes the low bits of the first
\* 10-bit field
EncodeVectors ==
    { <<97>>, <<97, 98>>, <<97, 98, 99>>, <<97, 98, 99, 100>>,
      <<97, 98, 99, 100, 101>>,
      <<72, 101, 108, 108, 111, 44, 32, 87, 111, 114, 108, 100, 33>>,
      <<0, 64>>, <<0, 128>>, <<0, 192>> }

\* the vectors that are varied in one position
EncodeProbed ==
    { <<97, 98, 99, 100, 101>>, <<97, 98, 99, 100, 101, 102, 103>>,
      <<0, 64>>, <<0, 128>>, <<0, 192>> }

EncodeData == SeqsUpTo(ByteVals, MaxLen) \cup EncodeVectors \cup Probes(EncodeProbed)

EncodeInputs ==
    {Bytes(d) : d \in EncodeData}
    \cup {[type |-> "buffer", data |-> d] : d \in EncodeVectors}
    \cup {[type |-> "str", data |-> <<97>>], [type |-> "object", data |-> <<>>]}

\* characters of the exhaustively enumerated decode inputs: '5', 'c', '='
RawChars == {53, 99, PadChar}

\* the encodings of croc32_test.py, its rejected inputs, and inputs with
\* 0, 6, 8 and 9 pad characters after one or two quanta
DecodeVectors ==
    { <<67, 52, 61, 61, 61, 61, 61, 61>>,          \* C4======
      <<67, 53, 72, 48, 61, 61, 61, 61>>,          \* C5H0====
      <<67, 53, 72, 54, 54, 61, 61, 61>>,          \* C5H66===
      <<67, 53, 72, 54, 54, 83, 48, 61>>,          \* C5H66S0=
      <<67, 53, 72, 54, 54, 83, 51, 53>>,          \* C5H66S35
      <<57, 49, 74, 80, 82, 86, 51, 70, 53, 71, 71, 53, 69, 86, 86, 74,
        68, 72, 74, 50, 50, 61, 61, 61>>,          \* 91JPRV3F5GG5EVVJDHJ22===
      <<67, 53, 72, 54, 54>>,                      \* C5H66
      <<61, 61, 61, 61, 61, 61, 61, 61>>,          \* ========
      <<73, 53, 85, 54, 54, 61, 61, 61>>,          \* I5U66===
      <<99, 53, 104, 54, 54, 61, 61, 61>>,         \* c5h66===
      <<67, 53, 61, 61, 61, 61, 61, 61>>,          \* C5======
      <<53, 53, 53, 53, 53, 53, 53, 53,
        61, 61, 61, 61, 61, 61, 61, 61>>,          \* 55555555========
      <<53, 53, 53, 53, 53, 53, 53, 61,
        61, 61, 61, 61, 61, 61, 61, 61>>,          \* 5555555=========
      <<67, 53, 72, 54, 54, 83, 51, 53,
        67, 53, 61, 61, 61, 61, 61, 61>> }         \* C5H66S35C5======

\* the vectors that are varied in one position
DecodeProbed ==
    { <<67, 53, 72, 54, 54, 61, 61, 61>>,          \* C5H66===
      <<67, 53, 72, 54, 54, 83, 51, 53>>,          \* C5H66S35
      <<67, 53, 72, 54, 54, 83, 51, 53,
        67, 53, 61, 61, 61, 61, 61, 61>> }         \* C5H66S35C5======

DecodeData == SeqsUpTo(RawChars, MaxRawLen) \cup DecodeVectors \cup Probes(DecodeProbed)

DecodeInputs ==
    {Bytes(d) : d \in DecodeData}
    \cup {[type |-> t, data |-> d] : t \in {"str", "buffer"}, d \in DecodeVectors}
    \cup {[type |-> "str", data |-> <<1055, 1088, 1080, 1074, 1077, 1090>>],
          [type |-> "object", data |-> <<>>]}

\* a mask is a stride: 0 is no position, m > 0 is positions 1, 1 + m, 1 + 2m, ...
\* (1 is every position)
Masks == 0..MaxStride
InMask(i, m) == m > 0 /\ (i - 1) % m = 0

\* the string with the case of the letters at the positions of m changed
ChangeCase(s, m) ==
    [i \in 1..Len(s) |->
        IF ~InMask(i, m) THEN s[i]
        ELSE IF s[i] >= 97 /\ s[i] <= 122 THEN s[i] - 32
        ELSE IF s[i] >= 65 /\ s[i] <= 90 THEN s[i] + 32
        ELSE s[i]]

(***************************************************************************)
(* The calls.  b32encode(s) is _b32encode(_b32alphabet, s) and             *)
(* b32decode(s, casefold) is _b32decode(_b32alphabet, s, casefold); each   *)
(* first builds its table if the cache does not hold it.                   *)
(***************************************************************************)
Init ==
    /\ _b32tab2 = EmptyDict
    /\ _b32rev = EmptyDict
    /\ pc = "idle"
    /\ arg1 = NoArg
    /\ casefold1 = TRUE
    /\ res1 = None
    /\ arg2 = NoArg
    /\ casefold2 = TRUE
    /\ res2 = None
    /\ encoded = <<>>

\* b32encode(s), as the first call
Encode(s) ==
    /\ pc = "idle"
    /\ _b32tab2' = InitTab2(_b32alphabet, _b32tab2)
    /\ arg1' = s
    /\ res1' = _b32encode(_b32alphabet, s, _b32tab2')
    /\ encoded' = EncodeQuanta(_b32alphabet, s, _b32tab2')
    /\ pc' = "encoded"
    /\ UNCHANGED <<_b32rev, casefold1, arg2, casefold2, res2>>

\* b32decode(s, casefold), as the first call
Decode(s, casefold) ==
    /\ pc = "idle"
    /\ _b32rev' = InitRev(_b32alphabet, _b32rev)
    /\ arg1' = s
    /\ casefold1' = casefold
    /\ res1' = _b32decode(_b32alphabet, s, casefold, _b32rev')
    /\ pc' = "decoded"
    /\ UNCHANGED <<_b32tab2, arg2, casefold2, res2, encoded>>

\* b32decode(e', casefold) where e = b32encode(b) and e' is e with the case
\* of some letters changed
DecodeEncoded(m, casefold) ==
    /\ pc = "encoded"
    /\ res1.kind = "ok"
    /\ _b32rev' = InitRev(_b32alphabet, _b32rev)
    /\ arg2' = Bytes(ChangeCase(res1.value, m))
    /\ casefold2' = casefold
    /\ res2' = _b32decode(_b32alphabet, arg2', casefold, _b32rev')
    /\ pc' = "roundtrip"
    /\ UNCHANGED <<_b32tab2, arg1, casefold1, res1, encoded>>

\* b32encode(b32decode(s, casefold))
EncodeDecoded ==
    /\ pc = "decoded"
    /\ res1.kind = "ok"
    /\ _b32tab2' = InitTab2(_b32alphabet, _b32tab2)
    /\ arg2' = Bytes(res1.value)
    /\ res2' = _b32encode(_b32alphabet, arg2', _b32tab2')
    /\ encoded' = EncodeQuanta(_b32alphabet, arg2', _b32tab2')
    /\ pc' = "reencoded"
    /\ UNCHANGED <<_b32rev, arg1, casefold1, res1, casefold2>>

\* b32decode(s') where b32decode(s) succeeded and s' is s with the case of
\* some letters changed
DecodeRecased(m) ==
    /\ pc = "decoded"
    /\ res1.kind = "ok"
    /\ casefold1
    /\ _b32rev' = InitRev(_b32alphabet, _b32rev)
    /\ arg2' = [arg1 EXCEPT !.data = ChangeCase(arg1.data, m)]
    /\ casefold2' = TRUE
    /\ res2' = _b32decode(_b32alphabet, arg2', TRUE, _b32rev')
    /\ pc' = "recased"
    /\ UNCHANGED <<_b32tab2, arg1, casefold1, res1, encoded>>

\* b32encode(a) where a is an array holding the bytes just encoded
\* (croc32_test.py, test_encode_byteable)
EncodeByteable ==
    /\ pc = "encoded"
    /\ arg1.type = "bytes"
    /\ _b32tab2' = InitTab2(_b32alphabet, _b32tab2)
    /\ arg2' = [type |-> "buffer", data |-> arg1.data]
    /\ res2' = _b32encode(_b32alphabet, arg2', _b32tab2')
    /\ encoded' = EncodeQuanta(_b32alphabet, arg2', _b32tab2')
    /\ pc' = "encoded_again"
    /\ UNCHANGED <<_b32rev, arg1, casefold1, res1, casefold2>>

Next ==
    \/ pc = "idle" /\ \E s \in EncodeInputs : Encode(s)
    \/ pc = "idle" /\ \E s \in DecodeInputs, casefold \in BOOLEAN : Decode(s, casefold)
    \/ pc = "encoded" /\ \E m \in Masks, casefold \in BOOLEAN : DecodeEncoded(m, casefold)
    \/ EncodeDecoded
    \/ pc = "decoded" /\ \E m \in Masks : DecodeRecased(m)
    \/ EncodeByteable

Spec == Init /\ [][Next]_vars

(***************************************************************************)
(* Vocabulary of the properties.                                           *)
(***************************************************************************)
\* the 32 symbols 0123456789ABCDEFGHJKMNPQRSTVWXYZ, as a set
Crockford == (48..57) \cup ((65..90) \ {73, 76, 79, 85})

\* number of '=' characters at the end of s
PadRun(s) == Cardinality({k \in 1..Len(s) : \A j \in k..Len(s) : s[j] = 61})

\* s has a letter
HasAlpha(s) == \E i \in 1..Len(s) : (s[i] >= 65 /\ s[i] <= 90) \/ (s[i] >= 97 /\ s[i] <= 122)

\* s.upper()
Uppercased(s) == [i \in 1..Len(s) |-> IF s[i] \in 97..122 THEN s[i] - 32 ELSE s[i]]

\* a byte string, or ASCII text, or a buffer of bytes
IsByteInput(a) ==
    \/ a.type \in {"bytes", "buffer"}
    \/ a.type = "str" /\ \A i \in 1..Len(a.data) : a.data[i] \in 0..127

\* the argument of the latest b32encode call, once one was made
EncodeCalled == pc \in {"encoded", "roundtrip", "reencoded", "encoded_again"}
EncodeArg == IF pc \in {"reencoded", "encoded_again"} THEN arg2 ELSE arg1
EncodeRes == IF pc \in {"reencoded", "encoded_again"} THEN res2 ELSE res1

\* j-th symbol (j = 0..7) of a 5-byte group by 5-bit extraction
NaiveSymbol(group, j) ==
    _b32alphabet[IntOf(BitAnd(Shr(from_bytes(group), 35 - 5 * j), Bits(31, 5))) + 1]

\* C1: decoding what b32encode returned gives back exactly the bytes that
\* were encoded, for every length and leftover; no fill byte reappears.
C1_RoundTrip ==
    (pc = "roundtrip" /\ arg2.data = res1.value)
        => res2 = Ok(arg1.data)

C1_Witness ==
    /\ pc = "roundtrip"
    /\ arg2.data = res1.value
    /\ casefold2
    /\ Len(arg1.data) = 7
    /\ arg1.data[7] = 0
    /\ res2 = Ok(arg1.data)

\* C2: every symbol the loop emits through the pair table is the symbol of
\* the 5-bit field of the group's 40-bit value, most significant first.
C2_PairTableIsNaive ==
    (EncodeCalled /\ EncodeRes.kind = "ok") =>
        LET d == EncodeArg.data
            s == IF Len(d) % 5 # 0 THEN d \o [i \in 1..(5 - (Len(d) % 5)) |-> 0] ELSE d
            groups == Len(s) \div 5
        IN  /\ Len(encoded) = 8 * groups
            /\ \A g \in 0..(groups - 1), j \in 0..7 :
                  encoded[8 * g + j + 1] = NaiveSymbol(SubSeq(s, 5 * g + 1, 5 * g + 5), j)

C2_Witness ==
    /\ pc = "encoded"
    /\ res1.kind = "ok"
    /\ Len(arg1.data) = 7
    /\ Len(encoded) = 16
    /\ encoded[2] # encoded[1]
    /\ encoded[9] \in 65..90

\* C3: the output ends with exactly 0, 6, 4, 3, 1 '=' for leftover
\* 0, 1, 2, 3, 4 and every character before them is an alphabet symbol.
C3_Padding ==
    (EncodeCalled /\ EncodeRes.kind = "ok") =>
        LET leftover == Len(EncodeArg.data) % 5
            out == EncodeRes.value
            pads == CASE leftover = 0 -> 0
                      [] leftover = 1 -> 6
                      [] leftover = 2 -> 4
                      [] leftover = 3 -> 3
                      [] leftover = 4 -> 1
        IN  /\ PadRun(out) = pads
            /\ \A i \in 1..(Len(out) - pads) : out[i] \in Crockford

C3_Witness ==
    /\ pc = "encoded"
    /\ res1.kind = "ok"
    /\ Len(arg1.data) = 6
    /\ PadRun(res1.value) = 6
    /\ Len(res1.value) = 16

\* C4: the output length is 0 for empty input and 8 * ceil(len / 5)
\* otherwise: empty only for empty input, always a multiple of 8.
C4_Length ==
    (EncodeCalled /\ EncodeRes.kind = "ok") =>
        LET n == Len(EncodeArg.data)
            out == EncodeRes.value
        IN  /\ Len(out) = (IF n = 0 THEN 0 ELSE 8 * ((n + 4) \div 5))
            /\ (out = <<>>) <=> (n = 0)
            /\ Len(out) % 8 = 0

C4_Witness ==
    /\ pc = "encoded"
    /\ res1.kind = "ok"
    /\ Len(arg1.data) = 13
    /\ Len(res1.value) = 24

(***************************************************************************)
(* Properties of b32decode.  A decode call is the first call of a run      *)
(* (arg1, casefold1, res1) or its second call (arg2, casefold2, res2).     *)
(***************************************************************************)
DecodeFirst == pc \in {"decoded", "reencoded", "recased"}
DecodeSecond == pc \in {"roundtrip", "recased"}

\* the input as the lookup sees it
Seen(a, cf) == IF cf THEN Uppercased(a.data) ELSE a.data

\* every character before the trailing '=' run is an alphabet symbol
AllSymbols(a, cf) ==
    \A i \in 1..(Len(a.data) - PadRun(a.data)) : Seen(a, cf)[i] \in Crockford

GoodPads == {0, 1, 3, 4, 6}

C5_PaddingBeforeLookup(a, cf, r) ==
    (IsByteInput(a) /\ (Len(a.data) % 8 # 0 \/ PadRun(a.data) \notin GoodPads))
        => r.kind = "PaddingError"

\* C5 as stated: a bad length or a bad pad count is always a PaddingError,
\* also when the input holds a character outside the alphabet.
C5_Original ==
    /\ DecodeFirst => C5_PaddingBeforeLookup(arg1, casefold1, res1)
    /\ DecodeSecond => C5_PaddingBeforeLookup(arg2, casefold2, res2)

C5_PaddingAmended(a, cf, r) ==
    IsByteInput(a) =>
        /\ Len(a.data) % 8 # 0 => r = Err("PaddingError")
        /\ (Len(a.data) % 8 = 0 /\ PadRun(a.data) \notin GoodPads) =>
              r = (IF AllSymbols(a, cf) THEN Err("PaddingError") ELSE Err("InvalidDigit"))

\* C5 (amended): a length that is no multiple of 8 is a PaddingError, checked
\* before anything else; a pad count outside {0,1,3,4,6} always fails, but it
\* is checked after the symbol lookup: PaddingError when every character
\* before the trailing '=' is an alphabet symbol, InvalidDigit otherwise.
C5_Padding ==
    /\ DecodeFirst => C5_PaddingAmended(arg1, casefold1, res1)
    /\ DecodeSecond => C5_PaddingAmended(arg2, casefold2, res2)

C5_Witness ==
    /\ pc = "decoded"
    /\ arg1.type = "bytes"
    /\ Len(arg1.data) = 16
    /\ PadRun(arg1.data) = 8
    /\ AllSymbols(arg1, casefold1)
    /\ res1 = Err("PaddingError")

C6_InvalidDigitOf(a, cf, r) ==
    (/\ IsByteInput(a)
     /\ Len(a.data) % 8 = 0
     /\ PadRun(a.data) \in GoodPads
     /\ ~AllSymbols(a, cf))
        => r = Err("InvalidDigit")

\* C6: with a length that is a multiple of 8 and a pad count in {0,1,3,4,6},
\* any character outside the alphabet before the trailing '=' (after
\* uppercasing when casefold is enabled) makes b32decode fail with
\* InvalidDigit, and nothing is returned.
C6_InvalidDigit ==
    /\ DecodeFirst => C6_InvalidDigitOf(arg1, casefold1, res1)
    /\ DecodeSecond => C6_InvalidDigitOf(arg2, casefold2, res2)

C6_Witness ==
    /\ pc = "decoded"
    /\ arg1.type = "bytes"
    /\ Len(arg1.data) = 16
    /\ PadRun(arg1.data) = 6
    /\ arg1.data[9] \in {73, 76, 79, 85}
    /\ \A i \in 1..8 : arg1.data[i] \in Crockford
    /\ res1 = Err("InvalidDigit")

\* C7: with casefold enabled, the encoding with the case of any of its
\* letters changed (all of them: the lowercased encoding) decodes to the
\* encoded bytes, and an accepted input with the case of letters changed
\* decodes to the same result.
C7_CaseInsensitive ==
    /\ (pc = "roundtrip" /\ casefold2) => res2 = Ok(arg1.data)
    /\ pc = "recased" => res2 = res1

C7_Witness ==
    /\ pc = "roundtrip"
    /\ casefold2
    /\ arg2.data = lower(res1.value)
    /\ arg2.data # res1.value
    /\ Len(arg1.data) = 6
    /\ res2 = Ok(arg1.data)

\* C8: with casefold disabled, the lowercased encoding is rejected with
\* InvalidDigit or PaddingError whenever the encoding has a letter, and
\* decodes to the encoded bytes when it has none.
C8_CaseSensitive ==
    (pc = "roundtrip" /\ ~casefold2 /\ arg2.data = lower(res1.value)) =>
        IF HasAlpha(res1.value)
        THEN res2.kind \in {"InvalidDigit", "PaddingError"} /\ res2.value = <<>>
        ELSE res2 = Ok(arg1.data)

C8_Witness ==
    /\ pc = "roundtrip"
    /\ ~casefold2
    /\ arg2.data = lower(res1.value)
    /\ HasAlpha(res1.value)
    /\ Len(arg1.data) = 5
    /\ res2 = Err("InvalidDigit")

\* C9 as stated: the encoding of a decoded input is the input (uppercased
\* when casefold is enabled).
C9_Original ==
    pc = "reencoded" => res2 = Ok(Seen(arg1, casefold1))

\* index of an alphabet symbol
IndexOf(c) == CHOOSE k \in 0..31 : _b32alphabet[k + 1] = c

\* bits of the last symbol before n pad characters that lie below the
\* bytes that are kept
SpareBits(n) ==
    CASE n = 6 -> 2
      [] n = 4 -> 4
      [] n = 3 -> 1
      [] n = 1 -> 3
      [] OTHER -> 0

\* C9 (amended): the encoding of a decoded input is the input (uppercased
\* when casefold is enabled) with the spare low bits of its last symbol
\* before the padding cleared; it is the input itself exactly when those
\* bits are zero, as in every unpadded input.
C9_Reencode ==
    pc = "reencoded" =>
        LET s == Seen(arg1, casefold1)
            pad == PadRun(s)
            last == Len(s) - pad
            e == res2.value
        IN  /\ res2.kind = "ok"
            /\ Len(e) = Len(s)
            /\ \A i \in 1..Len(s) : i # last => e[i] = s[i]
            /\ last > 0 =>
                 /\ e[last] \in Crockford
                 /\ IndexOf(e[last]) =
                      IndexOf(s[last]) - (IndexOf(s[last]) % (2 ^ SpareBits(pad)))
            /\ (e = s) <=> (last = 0 \/ IndexOf(s[last]) % (2 ^ SpareBits(pad)) = 0)

C9_Witness ==
    /\ pc = "reencoded"
    /\ arg1.data = <<67, 53, 61, 61, 61, 61, 61, 61>>
    /\ res1 = Ok(<<97>>)
    /\ res2 = Ok(<<67, 52, 61, 61, 61, 61, 61, 61>>)

\* bytes the last, partial quantum contributes for n pad characters
KeptBytes(n) ==
    CASE n = 1 -> 4
      [] n = 3 -> 3
      [] n = 4 -> 2
      [] n = 6 -> 1
      [] OTHER -> 0

C10_OutcomeOf(a, cf, r) ==
    a.type \in {"bytes", "buffer"} =>
        /\ r.kind \in {"ok", "PaddingError", "InvalidDigit"}
        /\ r.kind = "ok" =>
              LET pad == PadRun(a.data)
                  n == Len(a.data) - pad
              IN  /\ pad \in GoodPads
                  /\ Len(r.value) = 5 * (n \div 8) + KeptBytes(pad)
                  /\ n > 0 => r.value # <<>>

\* C10: on bytes, b32decode returns or fails with PaddingError or
\* InvalidDigit, never with an overflow of a 5-byte conversion; the last
\* quantum before 1, 3, 4, 6 pad characters yields exactly 4, 3, 2, 1 bytes,
\* so an accepted input with symbols never decodes to nothing.
C10_Outcomes ==
    /\ DecodeFirst => C10_OutcomeOf(arg1, casefold1, res1)
    /\ DecodeSecond => C10_OutcomeOf(arg2, casefold2, res2)

C10_Witness ==
    /\ pc = "decoded"
    /\ arg1.type = "bytes"
    /\ Len(arg1.data) = 16
    /\ PadRun(arg1.data) = 6
    /\ res1.kind = "ok"
    /\ Len(res1.value) = 6
    /\ res1.value[6] = 97
====
